---- MODULE Spec2Model ----
(***************************************************************************)
(* Model of aoScrape.py: the Sched class that turns a grid-encoded Arecibo *)
(* schedule table into session labels, start/end instants in               *)
(* America/Puerto_Rico and UTC, and wiki display lines.                    *)
(*                                                                         *)
(* Text that the code inspects character by character (the project         *)
(* identifier, searched for the substrings '2780' and '2945') is a         *)
(* sequence of one-character strings, and so is DateStr, which strptime    *)
(* matches character by character.  A datetime is a record of its calendar  *)
(* fields plus the UTC offset (in minutes) of the tzinfo attached to it.    *)
(***************************************************************************)
EXTENDS Integers, Sequences, FiniteSets, TLC

VARIABLES Table, pc, err, attrs, nRows, ProjID, SessID,
          StartAPR, EndAPR, StartUTC, EndUTC, WikiLines

vars == <<Table, pc, err, attrs, nRows, ProjID, SessID,
          StartAPR, EndAPR, StartUTC, EndUTC, WikiLines>>

-----------------------------------------------------------------------------
(* Bounds of the model.                                                    *)

\* Largest number of rows in the input table.
MaxRows == 2

\* Largest day-offset column of the grid (BegCol, EndCol are 0 or MaxCol;
\* one further row has an end column that datetime cannot hold).
MaxCol == 1

-----------------------------------------------------------------------------
(* Program constants.                                                      *)

\* timedelta(..., minutes=15.0*r): one grid row is fifteen minutes.
SlotMinutes == 15

\* Grid rows in one day column.
SlotsPerDay == 1440 \div SlotMinutes

\* pytz "America/Puerto_Rico": AST, UTC-04:00, no daylight saving time for
\* every date that '%y' can produce (1969..2068).
AprUtcOffset == -240

\* pytz.utc
UtcUtcOffset == 0

aoDictP2780 ==
    ("(a)" :> "A") @@ ("(b)" :> "B") @@ ("(c)" :> "C") @@ ("(d)" :> "D")

aoDictP2945_comma ==
    ("(a)" :> "0030") @@ ("(b)" :> "1640") @@ ("(c)" :> "1713") @@
    ("(d)" :> "2043") @@ ("(e)" :> "2317") @@
    ("(b)+(c)" :> "1640,1713") @@ ("(e)+(a)" :> "2317,0030")

aoDictP2945 ==
    ("(a)" :> "0030") @@ ("(b)" :> "1640") @@ ("(c)" :> "1713") @@
    ("(d)" :> "2043") @@ ("(e)" :> "2317") @@
    ("(b)+(c)" :> "1640/1713") @@ ("(e)+(a)" :> "2317/0030")

\* The substrings searched for in the project identifier.
Marker2780 == <<"2", "7", "8", "0">>
Marker2945 == <<"2", "9", "4", "5">>

-----------------------------------------------------------------------------
(* Text helpers.                                                           *)

\* Python's `sub in s` on character sequences.
Contains(sub, s) ==
    \E k \in 1..(Len(s) - Len(sub) + 1) : SubSeq(s, k, k + Len(sub) - 1) = sub

\* The string spelled by a character sequence ('%s' of a str).
RECURSIVE Join(_)
Join(cs) == IF cs = <<>> THEN "" ELSE Head(cs) \o Join(Tail(cs))

\* '%02d'
Pad2(n) == IF n < 10 THEN "0" \o ToString(n) ELSE ToString(n)

\* strftime '%Y': the year in decimal, which the C library does not pad
\* (year 925 is '925'); every year from 1000 on has four digits.
FmtYear(n) == ToString(n)

MonthNames ==
    <<"Jan", "Feb", "Mar", "Apr", "May", "Jun",
      "Jul", "Aug", "Sep", "Oct", "Nov", "Dec">>

-----------------------------------------------------------------------------
(* Calendar arithmetic of datetime (proleptic Gregorian ordinals).         *)

IsLeap(y) == (y % 4 = 0) /\ ((y % 100 # 0) \/ (y % 400 = 0))

DaysInMonth(y, m) ==
    IF m = 2 THEN (IF IsLeap(y) THEN 29 ELSE 28)
    ELSE IF m \in {4, 6, 9, 11} THEN 30 ELSE 31

DaysBeforeYear(y) ==
    (y - 1) * 365 + ((y - 1) \div 4) - ((y - 1) \div 100) + ((y - 1) \div 400)

\* Days of a common year that precede month m (datetime._DAYS_BEFORE_MONTH).
CommonDaysBefore == <<0, 31, 59, 90, 120, 151, 181, 212, 243, 273, 304, 334>>

DaysBeforeMonth(y, m) ==
    CommonDaysBefore[m] + (IF m > 2 /\ IsLeap(y) THEN 1 ELSE 0)

\* date.toordinal(): 0001-01-01 is day 1.
YmdToOrd(y, m, d) == DaysBeforeYear(y) + DaysBeforeMonth(y, m) + d

\* date.fromordinal(n), as datetime._ord2ymd computes it.
OrdToYmd(n) ==
    LET n0   == n - 1
        n400 == n0 \div 146097
        r400 == n0 % 146097
        n100 == r400 \div 36524
        r100 == r400 % 36524
        n4   == r100 \div 1461
        r4   == r100 % 1461
        n1   == r4 \div 365
        r1   == r4 % 365
        yr   == n400 * 400 + 1 + n100 * 100 + n4 * 4 + n1
    IN  IF n1 = 4 \/ n100 = 4
        THEN [year |-> yr - 1, month |-> 12, day |-> 31]
        ELSE LET guess == (r1 + 50) \div 32
                 mo == IF DaysBeforeMonth(yr, guess) > r1 THEN guess - 1
                       ELSE guess
             IN  [year |-> yr, month |-> mo,
                  day |-> r1 - DaysBeforeMonth(yr, mo) + 1]

\* date.max.toordinal(): 9999-12-31, the last day datetime can hold.
MaxOrdinal == YmdToOrd(9999, 12, 31)

\* datetime + timedelta(days = days, minutes = minutes): wall-clock
\* arithmetic that keeps the tzinfo (and so the UTC offset) of dt.
\* ok = FALSE is OverflowError: the sum lies outside the years 1..9999.
AddDelta(dt, days, minutes) ==
    LET total == dt.hour * 60 + dt.minute + minutes
        carry == total \div 1440
        rest  == total % 1440
        ord   == YmdToOrd(dt.year, dt.month, dt.day) + days + carry
        ymd   == OrdToYmd(ord)
    IN  IF ord \in 1..MaxOrdinal
        THEN [ok |-> TRUE,
              val |-> [year |-> ymd.year, month |-> ymd.month,
                       day |-> ymd.day, hour |-> rest \div 60,
                       minute |-> rest % 60, utcoff |-> dt.utcoff]]
        ELSE [ok |-> FALSE, val |-> <<>>]

-----------------------------------------------------------------------------
(* datetime.strptime, tz.localize, astimezone, datetime.strftime.          *)

\* strptime's '%y': 69..99 are 1969..1999, 00..68 are 2000..2068.
PivotYear(yy) == IF yy >= 69 THEN 1900 + yy ELSE 2000 + yy

UpperChars ==
    <<"A", "B", "C", "D", "E", "F", "G", "H", "I", "J", "K", "L", "M",
      "N", "O", "P", "Q", "R", "S", "T", "U", "V", "W", "X", "Y", "Z">>

LowerChars ==
    <<"a", "b", "c", "d", "e", "f", "g", "h", "i", "j", "k", "l", "m",
      "n", "o", "p", "q", "r", "s", "t", "u", "v", "w", "x", "y", "z">>

\* str.lower() of one ASCII character.
Lower(c) ==
    IF \E k \in 1..26 : UpperChars[k] = c
    THEN LowerChars[CHOOSE k \in 1..26 : UpperChars[k] = c]
    ELSE c

\* The month abbreviations as strptime's '%b' matches them: lower case,
\* compared with the lower-cased text (the match ignores case).
MonthChars ==
    << <<"j", "a", "n">>, <<"f", "e", "b">>, <<"m", "a", "r">>,
       <<"a", "p", "r">>, <<"m", "a", "y">>, <<"j", "u", "n">>,
       <<"j", "u", "l">>, <<"a", "u", "g">>, <<"s", "e", "p">>,
       <<"o", "c", "t">>, <<"n", "o", "v">>, <<"d", "e", "c">> >>

DigitChars == <<"0", "1", "2", "3", "4", "5", "6", "7", "8", "9">>

IsDigit(c) == \E k \in 1..10 : DigitChars[k] = c

DigitVal(c) == (CHOOSE k \in 1..10 : DigitChars[k] = c) - 1

\* '%b' on the first three characters: 0 when they spell no month.
MonthNumber(cs) ==
    LET low == [k \in 1..Len(cs) |-> Lower(cs[k])]
    IN  IF \E m \in 1..12 : MonthChars[m] = low
        THEN CHOOSE m \in 1..12 : MonthChars[m] = low
        ELSE 0

\* '%d' is 3[0-1] | [1-2]\d | 0[1-9] | [1-9] | ' '[1-9]: the day it reads
\* from the characters of the day field, 0 when they do not match.
DayNumber(cs) ==
    IF Len(cs) = 1
    THEN IF IsDigit(cs[1]) /\ cs[1] # "0" THEN DigitVal(cs[1]) ELSE 0
    ELSE IF Len(cs) = 2
    THEN IF cs[1] = "3" /\ cs[2] \in {"0", "1"} THEN 30 + DigitVal(cs[2])
         ELSE IF cs[1] \in {"1", "2"} /\ IsDigit(cs[2])
              THEN 10 * DigitVal(cs[1]) + DigitVal(cs[2])
         ELSE IF cs[1] \in {"0", " "} /\ IsDigit(cs[2]) /\ cs[2] # "0"
              THEN DigitVal(cs[2])
         ELSE 0
    ELSE 0

\* datetime.strptime(ds, '%b_%d_%y') on the characters of ds: a month
\* abbreviation in any case, '_', a day of one or two characters, '_', and
\* a year of exactly two digits, with nothing before or after; the day must
\* exist in that month.  ok = FALSE is ValueError; otherwise val is the
\* naive datetime at midnight of the parsed date.
Strptime(ds) ==
    LET n     == Len(ds)
        shape == /\ n \in {8, 9}
                 /\ ds[4] = "_"
                 /\ ds[n - 2] = "_"
                 /\ IsDigit(ds[n - 1]) /\ IsDigit(ds[n])
        mo    == MonthNumber(SubSeq(ds, 1, 3))
        dd    == DayNumber(SubSeq(ds, 5, n - 3))
        yr    == PivotYear(10 * DigitVal(ds[n - 1]) + DigitVal(ds[n]))
    IN  IF shape /\ mo # 0 /\ dd # 0 /\ dd <= DaysInMonth(yr, mo)
        THEN [ok |-> TRUE,
              val |-> [year |-> yr, month |-> mo, day |-> dd,
                       hour |-> 0, minute |-> 0]]
        ELSE [ok |-> FALSE, val |-> <<>>]

\* APR.localize(naive): the same wall clock with Puerto Rico's offset.
LocalizeAPR(naive) ==
    [year |-> naive.year, month |-> naive.month, day |-> naive.day,
     hour |-> naive.hour, minute |-> naive.minute, utcoff |-> AprUtcOffset]

\* dt.astimezone(tz) for a zone of fixed offset off: the same instant, so
\* the wall clock moves by the difference of the two offsets (ok = FALSE
\* is the OverflowError of that subtraction).
AsTimezone(dt, off) ==
    LET moved == AddDelta(dt, 0, off - dt.utcoff)
    IN  IF moved.ok
        THEN [ok |-> TRUE, val |-> [moved.val EXCEPT !.utcoff = off]]
        ELSE moved

\* sa.replace(tzinfo = UTC): relabels the wall clock, a different instant.
AsTimezoneUTC_replace(dt) ==
    [ok |-> TRUE, val |-> [dt EXCEPT !.utcoff = UtcUtcOffset]]

AsTimezoneUTC(dt) == AsTimezone(dt, UtcUtcOffset)

AsTimezoneAPR(dt) == AsTimezone(dt, AprUtcOffset)

\* Minutes of wall clock since 1970-01-01 00:00, and the instant an aware
\* datetime denotes (what comparison of aware datetimes compares).
WallMinutes(dt) ==
    (YmdToOrd(dt.year, dt.month, dt.day) - YmdToOrd(1970, 1, 1)) * 1440
        + dt.hour * 60 + dt.minute

EpochMinutes(dt) == WallMinutes(dt) - dt.utcoff

\* strftime pieces.
FmtHM(dt) == Pad2(dt.hour) \o ":" \o Pad2(dt.minute)

FmtMonDay(dt) == MonthNames[dt.month] \o " " \o Pad2(dt.day)

\* datetime.strftime(ast, '%Y %b %d: %H:%M')
WikiStart(ast) == FmtYear(ast.year) \o " " \o FmtMonDay(ast) \o ": " \o FmtHM(ast)

\* A formatter that never writes the date of the end.
WikiEnd_short(begCol, endCol, aet) == FmtHM(aet)

\* '%H:%M' when the session stays in one column, else '%b %d: %H:%M'.
WikiEnd(begCol, endCol, aet) ==
    IF begCol = endCol THEN FmtHM(aet)
    ELSE FmtMonDay(aet) \o ": " \o FmtHM(aet)

\* '%s - %s: %s (Session %s): <br>' % (WikiStart, WikiEnd, ProjID, SessID[r])
WikiLine(wikiStart, wikiEnd, projId, sess) ==
    wikiStart \o " - " \o wikiEnd \o ": " \o Join(projId)
        \o " (Session " \o sess \o "): <br>"

\* The list built by the loop of GetWikiLines, with insert(0, ...) in
\* place of append.
WikiLinesSeq_prepend(table, projId, sessId, startAPR, endAPR) ==
    [r \in 1..Len(startAPR) |->
        LET q == Len(startAPR) + 1 - r
        IN  WikiLine(WikiStart(startAPR[q]),
                     WikiEnd(table[q].BegCol, table[q].EndCol, endAPR[q]),
                     projId, sessId[q])]

\* The list built by the loop of GetWikiLines: one line per element of
\* zip(StartAPR, EndAPR), appended in order.
WikiLinesSeq(table, projId, sessId, startAPR, endAPR) ==
    [r \in 1..Len(startAPR) |->
        WikiLine(WikiStart(startAPR[r]),
                 WikiEnd(table[r].BegCol, table[r].EndCol, endAPR[r]),
                 projId, sessId[r])]

-----------------------------------------------------------------------------
(* Session translation and grid-to-instant conversion.                     *)

\* dict.get(ss, ss): a lookup that falls back to the raw code.
SessLookup_get(dict, ss) ==
    [ok |-> TRUE, val |-> IF ss \in DOMAIN dict THEN dict[ss] ELSE ss]

\* dict[ss]: ok = FALSE is KeyError.
SessLookup(dict, ss) ==
    IF ss \in DOMAIN dict THEN [ok |-> TRUE, val |-> dict[ss]]
    ELSE [ok |-> FALSE, val |-> ""]

\* [dict[ss] for ss in self.Table['Sess']]
TranslateAll(dict, table) ==
    [ok  |-> \A i \in 1..Len(table) : SessLookup(dict, table[i].Sess).ok,
     val |-> [i \in 1..Len(table) |-> SessLookup(dict, table[i].Sess).val]]

\* The branch of TranslateSess taken for a project identifier.
SelectedDict(projId) ==
    IF Contains(Marker2780, projId) THEN "P2780"
    ELSE IF Contains(Marker2945, projId) THEN "P2945"
    ELSE "none"

\* bd + timedelta with the row offset reduced modulo one day.
GridToInstant_wrap(bd, c, r) == AddDelta(bd, c, SlotMinutes * (r % SlotsPerDay))

\* bd + timedelta(days = 1.0*c, minutes = 15.0*r)
GridToInstant(bd, c, r) == AddDelta(bd, c, SlotMinutes * r)

\* [APR.localize(strptime(ds)) for ds in self.Table['DateStr']]
BlockDatesOf(table) ==
    [ok  |-> \A i \in 1..Len(table) : Strptime(table[i].DateStr).ok,
     val |-> [i \in 1..Len(table) |->
                 IF Strptime(table[i].DateStr).ok
                 THEN LocalizeAPR(Strptime(table[i].DateStr).val)
                 ELSE <<>>]]

\* The three list comprehensions over the grid: ok = FALSE when an element
\* raises OverflowError, and then nothing is assigned.
StartAPRSeq(table, bds) ==
    [ok  |-> \A i \in 1..Len(table) :
                GridToInstant(bds[i], table[i].BegCol, table[i].BegRow).ok,
     val |-> [i \in 1..Len(table) |->
                GridToInstant(bds[i], table[i].BegCol, table[i].BegRow).val]]

\* The end computed from the start's day column.
EndAPRSeq_begcol(table, bds) ==
    [ok  |-> \A i \in 1..Len(table) :
                GridToInstant(bds[i], table[i].BegCol, table[i].EndRow).ok,
     val |-> [i \in 1..Len(table) |->
                GridToInstant(bds[i], table[i].BegCol, table[i].EndRow).val]]

EndAPRSeq(table, bds) ==
    [ok  |-> \A i \in 1..Len(table) :
                GridToInstant(bds[i], table[i].EndCol, table[i].EndRow).ok,
     val |-> [i \in 1..Len(table) |->
                GridToInstant(bds[i], table[i].EndCol, table[i].EndRow).val]]

UTCSeq(aprs) ==
    [ok  |-> \A i \in 1..Len(aprs) : AsTimezoneUTC(aprs[i]).ok,
     val |-> [i \in 1..Len(aprs) |-> AsTimezoneUTC(aprs[i]).val]]

-----------------------------------------------------------------------------
(* Inputs: the tables handed to Sched(table).                              *)

Chars2780 == <<"P", "2", "7", "8", "0">>
Chars2945 == <<"P", "2", "9", "4", "5">>
Chars1234 == <<"P", "1", "2", "3", "4">>
CharsBoth == <<"P", "2", "7", "8", "0", "/", "P", "2", "9", "4", "5">>

Projs == {Chars2780, Chars2945, Chars1234, CharsBoth}

SessCodes ==
    {"(a)", "(b)", "(c)", "(d)", "(e)", "(b)+(c)", "(e)+(a)", "(z)"}

\* 'Jul_11_20', 'Dec_31_99', 'Feb_28_20' and 'Feb_30_21'.
Jul11 == <<"J", "u", "l", "_", "1", "1", "_", "2", "0">>
Dec31 == <<"D", "e", "c", "_", "3", "1", "_", "9", "9">>
Feb28 == <<"F", "e", "b", "_", "2", "8", "_", "2", "0">>
BadDate == <<"F", "e", "b", "_", "3", "0", "_", "2", "1">>

\* <<BegCol, EndCol>>: a block inside the first column, a block that ends
\* in the last column, and a block whose end column precedes its start.
ColPairs == {<<0, 0>>, <<0, MaxCol>>, <<MaxCol, 0>>}

\* <<BegRow, EndRow>>: a daytime block, a block that runs past midnight
\* into the next column, an end row beyond the last slot of the day, and
\* an end row before the start row.
SlotPairs == {<<35, 63>>, <<92, 2>>, <<92, 100>>, <<63, 35>>}

Row(ds, sess, bc, ec, br, er) ==
    [DateStr |-> ds, Sess |-> sess, BegCol |-> bc, EndCol |-> ec,
     BegRow |-> br, EndRow |-> er]

\* Every session code in the daytime block; every column pair with every
\* row pair; blocks at the end of a year and at the end of February of a
\* leap year; a date that does not exist; an end column beyond the last
\* day datetime can hold.
Rows ==
    {Row(Jul11, s, 0, 0, 35, 63) : s \in SessCodes}
    \cup {Row(Jul11, "(a)", cp[1], cp[2], sp[1], sp[2]) :
             cp \in ColPairs, sp \in SlotPairs}
    \cup {Row(Dec31, "(a)", 0, MaxCol, 92, 2), Row(Feb28, "(a)", 0, 0, 92, 100)}
    \cup {Row(BadDate, "(a)", 0, 0, 35, 63)}
    \cup {Row(Jul11, "(a)", 0, MaxOrdinal, 35, 63)}

\* Every row of a table carries the project the schedule was requested for.
WithProj(t, p) ==
    [i \in 1..Len(t) |->
        [DateStr |-> t[i].DateStr, Proj |-> p, Sess |-> t[i].Sess,
         BegCol |-> t[i].BegCol, EndCol |-> t[i].EndCol,
         BegRow |-> t[i].BegRow, EndRow |-> t[i].EndRow]]

Tables ==
    {WithProj(t, p) :
        t \in UNION {[1..n -> Rows] : n \in 0..MaxRows}, p \in Projs}

-----------------------------------------------------------------------------
(* Sched.__init__ and the three methods it calls, in order.                *)

Init ==
    /\ Table \in Tables
    /\ pc = "init"
    /\ err = "none"
    /\ attrs = {}
    /\ nRows = 0
    /\ ProjID = <<>>
    /\ SessID = <<>>
    /\ StartAPR = <<>>
    /\ EndAPR = <<>>
    /\ StartUTC = <<>>
    /\ EndUTC = <<>>
    /\ WikiLines = <<>>

\* self.Table = table; self.nRows = len(table); self.ProjID = Table['Proj'][0]
SchedInit ==
    /\ pc = "init"
    /\ nRows' = Len(Table)
    /\ IF Len(Table) = 0
       THEN /\ pc' = "failed"
            /\ err' = "IndexError"
            /\ attrs' = {"Table", "nRows"}
            /\ UNCHANGED ProjID
       ELSE /\ pc' = "TranslateSess"
            /\ ProjID' = Table[1].Proj
            /\ attrs' = {"Table", "nRows", "ProjID"}
            /\ UNCHANGED err
    /\ UNCHANGED <<Table, SessID, StartAPR, EndAPR, StartUTC, EndUTC, WikiLines>>

TranslateSess ==
    /\ pc = "TranslateSess"
    /\ LET sel == SelectedDict(ProjID)
           res == IF sel = "P2780" THEN TranslateAll(aoDictP2780, Table)
                  ELSE TranslateAll(aoDictP2945, Table)
       IN  IF sel = "none"
           THEN /\ pc' = "ObsTimesTZ"
                /\ UNCHANGED <<err, attrs, SessID>>
           ELSE IF res.ok
           THEN /\ pc' = "ObsTimesTZ"
                /\ SessID' = res.val
                /\ attrs' = attrs \cup {"SessID"}
                /\ UNCHANGED err
           ELSE /\ pc' = "failed"
                /\ err' = "KeyError"
                /\ UNCHANGED <<attrs, SessID>>
    /\ UNCHANGED <<Table, nRows, ProjID, StartAPR, EndAPR, StartUTC, EndUTC,
                   WikiLines>>

\* Each of StartAPR, EndAPR, StartUTC, EndUTC is assigned as soon as its
\* list is complete, so an exception leaves the earlier ones assigned.
ObsTimesTZ ==
    /\ pc = "ObsTimesTZ"
    /\ LET bds == BlockDatesOf(Table)
           st  == StartAPRSeq(Table, bds.val)
           en  == EndAPRSeq(Table, bds.val)
           su  == UTCSeq(st.val)
           eu  == UTCSeq(en.val)
       IN  IF ~bds.ok
           THEN /\ pc' = "failed"
                /\ err' = "ValueError"
                /\ UNCHANGED <<attrs, StartAPR, EndAPR, StartUTC, EndUTC>>
           ELSE IF ~st.ok
           THEN /\ pc' = "failed"
                /\ err' = "OverflowError"
                /\ UNCHANGED <<attrs, StartAPR, EndAPR, StartUTC, EndUTC>>
           ELSE IF ~en.ok
           THEN /\ pc' = "failed"
                /\ err' = "OverflowError"
                /\ StartAPR' = st.val
                /\ attrs' = attrs \cup {"StartAPR"}
                /\ UNCHANGED <<EndAPR, StartUTC, EndUTC>>
           ELSE IF ~su.ok
           THEN /\ pc' = "failed"
                /\ err' = "OverflowError"
                /\ StartAPR' = st.val
                /\ EndAPR' = en.val
                /\ attrs' = attrs \cup {"StartAPR", "EndAPR"}
                /\ UNCHANGED <<StartUTC, EndUTC>>
           ELSE IF ~eu.ok
           THEN /\ pc' = "failed"
                /\ err' = "OverflowError"
                /\ StartAPR' = st.val
                /\ EndAPR' = en.val
                /\ StartUTC' = su.val
                /\ attrs' = attrs \cup {"StartAPR", "EndAPR", "StartUTC"}
                /\ UNCHANGED EndUTC
           ELSE /\ pc' = "GetWikiLines"
                /\ StartAPR' = st.val
                /\ EndAPR' = en.val
                /\ StartUTC' = su.val
                /\ EndUTC' = eu.val
                /\ attrs' = attrs \cup {"StartAPR", "EndAPR", "StartUTC", "EndUTC"}
                /\ UNCHANGED err
    /\ UNCHANGED <<Table, nRows, ProjID, SessID, WikiLines>>

GetWikiLines ==
    /\ pc = "GetWikiLines"
    /\ attrs' = attrs \cup {"WikiLines"}
    /\ IF "SessID" \notin attrs /\ Len(StartAPR) > 0
       THEN /\ pc' = "failed"
            /\ err' = "AttributeError"
            /\ WikiLines' = <<>>
       ELSE /\ pc' = "done"
            /\ WikiLines' = WikiLinesSeq(Table, ProjID, SessID, StartAPR, EndAPR)
            /\ UNCHANGED err
    /\ UNCHANGED <<Table, nRows, ProjID, SessID, StartAPR, EndAPR, StartUTC, EndUTC>>

Next == SchedInit \/ TranslateSess \/ ObsTimesTZ \/ GetWikiLines

Spec == Init /\ [][Next]_vars

-----------------------------------------------------------------------------
(* Properties.                                                             *)

Finished == pc \in {"done", "failed"}

\* The project identifier of the batch contains neither marker.
UnsupportedProject ==
    /\ Len(Table) >= 1
    /\ ~Contains(Marker2780, Table[1].Proj)
    /\ ~Contains(Marker2945, Table[1].Proj)

\* C1: constructing a Schedule from a non-empty batch (with parseable
\* dates and day columns within the grid) whose project identifier contains neither '2780' nor '2945'
\* completes without failing, and produces no session labels.
C1_UnsupportedProjectCompletes ==
    (UnsupportedProject /\ BlockDatesOf(Table).ok
        /\ (\A i \in 1..Len(Table) : Table[i].EndCol <= MaxCol) /\ Finished)
        => (pc = "done" /\ err = "none" /\ "SessID" \notin attrs)

\* C2: constructing a Schedule from zero rows yields an empty Schedule
\* (row count 0, no display lines) and is not an error.
C2_EmptyBatchIsEmptySchedule ==
    (Len(Table) = 0 /\ Finished)
        => (pc = "done" /\ err = "none" /\ nRows = 0 /\ WikiLines = <<>>
            /\ "WikiLines" \in attrs)

\* Some row's session code is missing from the table that the project
\* identifier selects.
UnknownCodeInBatch ==
    /\ Len(Table) >= 1
    /\ \/ /\ Contains(Marker2780, Table[1].Proj)
          /\ \E i \in 1..Len(Table) : Table[i].Sess \notin {"(a)", "(b)", "(c)", "(d)"}
       \/ /\ ~Contains(Marker2780, Table[1].Proj)
          /\ Contains(Marker2945, Table[1].Proj)
          /\ \E i \in 1..Len(Table) :
                Table[i].Sess \notin {"(a)", "(b)", "(c)", "(d)", "(e)",
                                      "(b)+(c)", "(e)+(a)"}

\* C3: with a supported project marker and a session code that the selected
\* table lacks (at any row), construction never gets past translation: it
\* can only fail, with the unknown-code error (KeyError), and no label,
\* start/end instant or display line is ever stored for any row.
C3_UnknownCodeFailsWhole ==
    UnknownCodeInBatch =>
        /\ pc \in {"init", "TranslateSess", "failed"}
        /\ pc = "failed" => err = "KeyError"
        /\ attrs \cap {"SessID", "StartAPR", "EndAPR", "StartUTC", "EndUTC",
                       "WikiLines"} = {}
        /\ SessID = <<>> /\ StartAPR = <<>> /\ EndAPR = <<>>
        /\ StartUTC = <<>> /\ EndUTC = <<>> /\ WikiLines = <<>>

\* C3 witness: construction has failed on a two-row P2780 batch whose
\* first row is translatable and whose second row is not.
C3_Witness ==
    /\ pc = "failed" /\ err = "KeyError"
    /\ Len(Table) = 2
    /\ ProjID = Chars2780
    /\ Table[1].Sess = "(a)"
    /\ Table[2].Sess = "(e)"

\* C4: a constructed Schedule of N rows has exactly N display lines, and
\* line i is the line of row i (its label, start and end), in input order,
\* with nothing sorted, merged or dropped.
C4_LinesFollowRows ==
    pc = "done" =>
        /\ Len(WikiLines) = Len(Table)
        /\ Len(WikiLines) = nRows
        /\ \A i \in 1..Len(Table) :
              WikiLines[i] =
                  WikiLine(WikiStart(StartAPR[i]),
                           WikiEnd(Table[i].BegCol, Table[i].EndCol, EndAPR[i]),
                           ProjID, SessID[i])

\* C4 witness: a constructed two-row Schedule whose first row starts after
\* its second row, with different lines.
C4_Witness ==
    /\ pc = "done"
    /\ Len(Table) = 2
    /\ EpochMinutes(StartAPR[1]) > EpochMinutes(StartAPR[2])
    /\ WikiLines[1] # WikiLines[2]

\* A year written with four digits ('YYYY').
FourDigitYear(n) ==
    IF n < 10 THEN "000" \o ToString(n)
    ELSE IF n < 100 THEN "00" \o ToString(n)
    ELSE IF n < 1000 THEN "0" \o ToString(n)
    ELSE ToString(n)

\* C5: every line is '<start> - <end>: <projectId> (Session <label>): <br>'
\* with start 'YYYY Mon DD: HH:MM' and end 'HH:MM' exactly when
\* BegCol = EndCol, 'Mon DD: HH:MM' exactly when BegCol # EndCol.
C5_LineFormat ==
    pc = "done" =>
        \A i \in 1..Len(Table) :
            LET s == StartAPR[i]
                e == EndAPR[i]
                hm == Pad2(e.hour) \o ":" \o Pad2(e.minute)
                startText ==
                    FourDigitYear(s.year) \o " " \o MonthNames[s.month] \o " "
                        \o Pad2(s.day) \o ": " \o Pad2(s.hour) \o ":"
                        \o Pad2(s.minute)
                endText ==
                    IF Table[i].BegCol = Table[i].EndCol THEN hm
                    ELSE MonthNames[e.month] \o " " \o Pad2(e.day) \o ": " \o hm
            IN  WikiLines[i] =
                    startText \o " - " \o endText \o ": " \o Join(ProjID)
                        \o " (Session " \o SessID[i] \o "): <br>"

\* C5 witness: a constructed Schedule with one row inside a single column
\* and one row that spans columns.
C5_Witness ==
    /\ pc = "done"
    /\ \E i, j \in 1..Len(Table) :
          /\ Table[i].BegCol = Table[i].EndCol
          /\ Table[j].BegCol # Table[j].EndCol

\* Minutes from midnight of row i's parsed block date to the wall clock dt.
SinceBlockMidnight(i, dt) ==
    LET bd == Strptime(Table[i].DateStr).val
    IN  (YmdToOrd(dt.year, dt.month, dt.day)
            - YmdToOrd(bd.year, bd.month, bd.day)) * 1440
        + dt.hour * 60 + dt.minute

\* C6: start (end) is local midnight of the block date plus BegCol (EndCol)
\* days plus BegRow (EndRow) times 15 minutes, as a normal calendar time in
\* Puerto Rico, whatever the size of the row offset; the block of
\* 2020-07-11 with rows 35 and 63 in column 0 runs 08:45 to 15:45.
C6_GridToLocalInstants ==
    "EndAPR" \in attrs =>
        /\ Len(StartAPR) = Len(Table) /\ Len(EndAPR) = Len(Table)
        /\ \A i \in 1..Len(Table) :
              /\ SinceBlockMidnight(i, StartAPR[i])
                    = Table[i].BegCol * 1440 + Table[i].BegRow * 15
              /\ SinceBlockMidnight(i, EndAPR[i])
                    = Table[i].EndCol * 1440 + Table[i].EndRow * 15
              /\ StartAPR[i].hour \in 0..23 /\ StartAPR[i].minute \in 0..59
              /\ EndAPR[i].hour \in 0..23 /\ EndAPR[i].minute \in 0..59
              /\ StartAPR[i].utcoff = -240 /\ EndAPR[i].utcoff = -240
              /\ ( /\ Table[i].DateStr = Jul11
                   /\ Table[i].BegCol = 0 /\ Table[i].BegRow = 35
                   /\ Table[i].EndCol = 0 /\ Table[i].EndRow = 63 )
                 => /\ StartAPR[i] = [year |-> 2020, month |-> 7, day |-> 11,
                                      hour |-> 8, minute |-> 45, utcoff |-> -240]
                    /\ EndAPR[i] = [year |-> 2020, month |-> 7, day |-> 11,
                                    hour |-> 15, minute |-> 45, utcoff |-> -240]

\* C6 witness: instants are computed for a batch holding the 08:45-15:45
\* block and a row whose end row is 96 or more.
C6_Witness ==
    /\ "EndAPR" \in attrs
    /\ \E i, j \in 1..Len(Table) :
          /\ Table[i].DateStr = Jul11
          /\ Table[i].BegCol = 0 /\ Table[i].BegRow = 35
          /\ StartAPR[i].hour = 8 /\ StartAPR[i].minute = 45
          /\ Table[j].EndRow >= 96
          /\ EndAPR[j].hour = 1

\* The Table A and Table B entries, as the specification lists them.
LabelA(code) ==
    CASE code = "(a)" -> "A" [] code = "(b)" -> "B"
      [] code = "(c)" -> "C" [] code = "(d)" -> "D"

LabelB(code) ==
    CASE code = "(a)" -> "0030" [] code = "(b)" -> "1640"
      [] code = "(c)" -> "1713" [] code = "(d)" -> "2043"
      [] code = "(e)" -> "2317" [] code = "(b)+(c)" -> "1640/1713"
      [] code = "(e)+(a)" -> "2317/0030"

\* C7 as stated: labels are the Table A entries when the identifier
\* contains '2780', and the Table B entries when it contains '2945'.
C7_TableByMarker ==
    "SessID" \in attrs =>
        /\ Contains(Marker2780, ProjID)
              => \A i \in 1..Len(Table) : SessID[i] = LabelA(Table[i].Sess)
        /\ Contains(Marker2945, ProjID)
              => \A i \in 1..Len(Table) : SessID[i] = LabelB(Table[i].Sess)

\* C7 amended: labels exist only for identifiers with a marker; they are the
\* Table A entries when the identifier contains '2780' (also when it
\* contains '2945' as well), and the Table B entries when it contains
\* '2945' and not '2780'; one table serves every row.
C7_TableByMarkerWithPrecedence ==
    "SessID" \in attrs =>
        /\ Len(SessID) = Len(Table)
        /\ Contains(Marker2780, ProjID) \/ Contains(Marker2945, ProjID)
        /\ Contains(Marker2780, ProjID)
              => \A i \in 1..Len(Table) : SessID[i] = LabelA(Table[i].Sess)
        /\ (Contains(Marker2945, ProjID) /\ ~Contains(Marker2780, ProjID))
              => \A i \in 1..Len(Table) : SessID[i] = LabelB(Table[i].Sess)

\* C7 witness: a P2945 batch with a composite code has been translated.
C7_Witness ==
    /\ "SessID" \in attrs
    /\ ProjID = Chars2945
    /\ \E i \in 1..Len(Table) :
          Table[i].Sess = "(e)+(a)" /\ SessID[i] = "2317/0030"

\* C8: the UTC start and end are the same instants as the local ones:
\* converting them back to Puerto Rico time gives the local datetimes
\* again, and local wall clock minus UTC wall clock is the zone's offset.
C8_UniversalIsSameInstant ==
    "EndUTC" \in attrs =>
        /\ Len(StartUTC) = Len(Table) /\ Len(EndUTC) = Len(Table)
        /\ \A i \in 1..Len(Table) :
              /\ StartUTC[i].utcoff = 0 /\ EndUTC[i].utcoff = 0
              /\ AsTimezoneAPR(StartUTC[i]) = [ok |-> TRUE, val |-> StartAPR[i]]
              /\ AsTimezoneAPR(EndUTC[i]) = [ok |-> TRUE, val |-> EndAPR[i]]
              /\ EpochMinutes(StartUTC[i]) = EpochMinutes(StartAPR[i])
              /\ EpochMinutes(EndUTC[i]) = EpochMinutes(EndAPR[i])
              /\ WallMinutes(StartAPR[i]) - WallMinutes(StartUTC[i]) = -240
              /\ WallMinutes(EndAPR[i]) - WallMinutes(EndUTC[i]) = -240

\* C8 witness: a start late on 1999-12-31 in Puerto Rico that is already
\* in 2000 in UTC.
C8_Witness ==
    /\ "EndUTC" \in attrs
    /\ \E i \in 1..Len(Table) :
          /\ StartAPR[i].year = 1999 /\ StartAPR[i].hour = 23
          /\ StartUTC[i].year = 2000 /\ StartUTC[i].hour = 3

\* C9 as stated: every session of a constructed Schedule ends after it
\* starts.
C9_EndAfterStart ==
    pc = "done" =>
        \A i \in 1..Len(Table) :
            EpochMinutes(EndAPR[i]) > EpochMinutes(StartAPR[i])

\* C9 amended: a session ends after it starts exactly when its end grid
\* position (96 rows to a column) lies after its start grid position;
\* other rows are passed through with an end at or before the start.
C9_EndAfterStartIffGridOrdered ==
    pc = "done" =>
        \A i \in 1..Len(Table) :
            (EpochMinutes(EndAPR[i]) > EpochMinutes(StartAPR[i]))
                <=> (96 * Table[i].EndCol + Table[i].EndRow
                        > 96 * Table[i].BegCol + Table[i].BegRow)

\* C9 witness: a constructed Schedule with one session that ends after its
\* start in a later column, and one that ends before its start.
C9_Witness ==
    /\ pc = "done"
    /\ \E i, j \in 1..Len(Table) :
          /\ Table[i].EndCol > Table[i].BegCol
          /\ Table[i].EndRow < Table[i].BegRow
          /\ EpochMinutes(EndAPR[i]) > EpochMinutes(StartAPR[i])
          /\ EpochMinutes(EndAPR[j]) < EpochMinutes(StartAPR[j])

\* C10: a session whose end falls on another calendar day than its start
\* has its end written with the 'Mon DD:' date prefix, also when it is the
\* row offsets that carry it over midnight.
C10_DayChangeShowsDate ==
    pc = "done" =>
        \A i \in 1..Len(Table) :
            (<<EndAPR[i].year, EndAPR[i].month, EndAPR[i].day>>
                # <<StartAPR[i].year, StartAPR[i].month, StartAPR[i].day>>)
            => WikiLines[i] =
                  WikiLine(WikiStart(StartAPR[i]),
                           FmtMonDay(EndAPR[i]) \o ": " \o FmtHM(EndAPR[i]),
                           ProjID, SessID[i])

====
